---- MODULE Spec2Model ----
(***************************************************************************)
(* rtl-sdr-fft: the fixed-point radix-2 FFT of fft.hpp, the DC removal of  *)
(* rtl-sdr-fft.cpp, and main's validation and two-stage pipeline           *)
(* (producer, fft_stage).                                                  *)
(*                                                                         *)
(* Two state machines share the module, under three specifications:       *)
(*   SpecFFT  - the numeric code, run step by step on drawn inputs;        *)
(*   Spec     - main, the signal handler and the two stage threads;        *)
(*   FairSpec - Spec with the fairness of the thread scheduler.            *)
(***************************************************************************)
EXTENDS Integers, Sequences, FiniteSets, TLC

(***************************************************************************)
(* Bounds of the model.                                                    *)
(***************************************************************************)
\* transform sizes N = 2^lg for lg in 0..MaxLog2N
MaxLog2N == 3
\* buffers of arbitrary sample values have N = 2^lg for lg in 0..MaxLog2Samples
MaxLog2Samples == 2

(***************************************************************************)
(* fixq15 and complex<fixq15> (fixq15.hpp, complex.hpp).                   *)
(***************************************************************************)
Q15 == 2 ^ 15

\* The values are integers of any width here (the intermediate type of the
\* code is wide); the operators below split their operands so that no
\* intermediate result leaves the range the model checker computes in.

\* floor(a * 2^bits / b) for a >= 0 and b > 0, by long division
RECURSIVE ScaledQuot(_, _, _)
ScaledQuot(a, b, bits) ==
    IF bits = 0
    THEN a \div b
    ELSE (a \div b) * (2 ^ bits) + ScaledQuot(2 * (a % b), b, bits - 1)

Abs(x) == IF x < 0 THEN -x ELSE x

\* product of two Q15 values, computed wide and shifted right by 15:
\* floor(a * b / 2^15), with a = ah * 2^15 + al and b = bh * 2^15 + bl
FixMul(a, b) ==
    LET ah == a \div Q15
        al == a % Q15
        bh == b \div Q15
        bl == b % Q15
    IN  ah * b + al * bh + ((al * bl) \div Q15)

\* quotient of two Q15 values, the dividend scaled up by Q15 first, the
\* quotient truncated towards zero as integer division truncates it
FixDiv(a, b) ==
    LET q == ScaledQuot(Abs(a), Abs(b), 15)
    IN  IF (a < 0) = (b < 0) THEN q ELSE -q

Complex(x, y) == [re |-> x, im |-> y]

CZero == Complex(0, 0)

CAdd(u, v) == Complex(u.re + v.re, u.im + v.im)

CSub(u, v) == Complex(u.re - v.re, u.im - v.im)

CMul(u, v) ==
    Complex(FixMul(u.re, v.re) - FixMul(u.im, v.im),
            FixMul(u.re, v.im) + FixMul(u.im, v.re))

CDivScalar(u, s) == Complex(FixDiv(u.re, s), FixDiv(u.im, s))

CConj(u) == Complex(u.re, -u.im)

CNorm(u) == u.re * u.re + u.im * u.im

RECURSIVE ilog2(_)
ilog2(x) == IF x <= 1 THEN 0 ELSE 1 + ilog2(x \div 2)

RECURSIVE BitAnd(_, _)
BitAnd(a, b) ==
    IF a = 0 \/ b = 0
    THEN 0
    ELSE (a % 2) * (b % 2) + 2 * BitAnd(a \div 2, b \div 2)

(***************************************************************************)
(* generate_e_2pi_i: e[i] = (round(Q15 cos(2 pi i / N)),                   *)
(*                           round(Q15 sin(2 pi i / N))).                  *)
(* RoundQ15Cos[t + 1] is round(Q15 * cos(2 pi t / 32)), t in 0..31, as the *)
(* double arithmetic of the code yields it; N divides 32 for every N of    *)
(* the model.                                                              *)
(***************************************************************************)
TableSteps == 2 ^ 5

RoundQ15Cos ==
    << 32768,  32138,  30274,  27246,  23170,  18205,  12540,   6393,
           0,  -6393, -12540, -18205, -23170, -27246, -30274, -32138,
      -32768, -32138, -30274, -27246, -23170, -18205, -12540,  -6393,
           0,   6393,  12540,  18205,  23170,  27246,  30274,  32138 >>

CosQ15(i, size) == RoundQ15Cos[((i * (TableSteps \div size)) % TableSteps) + 1]

\* sin(x) = cos(x - pi/2): a quarter of the table back
SinQ15(i, size) ==
    RoundQ15Cos[((i * (TableSteps \div size) + 3 * (TableSteps \div 4)) % TableSteps) + 1]

generate_e_2pi_i(size) ==
    [i \in 0 .. size - 1 |-> Complex(CosQ15(i, size), SinQ15(i, size))]

(***************************************************************************)
(* State of the numeric machine.                                           *)
(***************************************************************************)
VARIABLES
    test,     \* which function is applied: "impulse", "sinusoid", "fft_samples"
              \* (fft), "reorder_twice", "remove_dc_twice", or "none"
    N,        \* transform size
    k,        \* frequency of the sinusoid (0 for the other tests)
    e,        \* twiddle table e_2pi_i
    iq0,      \* the input buffer, as drawn
    iq1,      \* the buffer after the first application (tests that apply twice)
    iq,       \* the buffer, transformed in place
    iqp,      \* fft: the buffer as the pass last begun found it
    fpc,      \* position in the code: "reorder", "butterfly", "coefficients",
              \* "dc", "done", or "idle"
    applied,  \* completed applications of the function under test
    n,        \* fft_reorder_samples: loop index
    m,        \* fft_reorder_samples: running bit-reversed index
    swaps,    \* fft_reorder_samples: the swaps done, in order, as <<n, m>>
    log2_n,   \* fft: pass
    j,        \* fft: offset inside a block
    r         \* fft: block start

fftVars ==
    <<test, N, k, e, iq0, iq1, iq, iqp, fpc, applied, n, m, swaps, log2_n, j, r>>

(***************************************************************************)
(* State of main, the signal handler and the two stage threads.            *)
(***************************************************************************)
VARIABLES
    fft_size,   \* main: the transform size of the command line (int)
    frequency,  \* main: the center frequency of the command line
    main_pc,    \* main: "validate", "device", "init", "start", "join", "done",
                \* "exit_failure"; "aborted" once the process has been killed
    main_err,   \* main: what it reported before exit(EXIT_FAILURE)
    run_state,  \* pipeline: "None" (no pipeline yet), "Created", "Running",
                \* "Stopping", "Stopped"
    stop_seen,  \* history: stop() has been called after start()
    signals,    \* signals delivered so far
    queue,      \* the ring buffer between the stages: buffers, oldest first
    closed,     \* the ring buffer has been closed
    live,       \* the buffers allocated and not yet destroyed
    p_pc,       \* producer thread: "off", "loop", "read", "for", "write", "ret",
                \* "exited"
    p_ret,      \* producer: the value its last iteration returned
    p_source,   \* producer: what rtlsdr_read_sync did in this iteration
    p_buf,      \* producer: the buffer iqbuf_uptr owns (0: nullptr)
    p_err,      \* producer: what its last step wrote to stderr
    p_refused,  \* history: a write of this iteration found the queue full
    offset,     \* producer: offset of the sub-block in iqbuf_u8
    counter,    \* producer: its static counter of full reads
    c_pc,       \* fft_stage thread: "off", "loop", "read", "process", "ret",
                \* "exited"
    c_ret,      \* fft_stage: the value its last iteration returned
    c_status,   \* fft_stage: what the read of its last iteration found
    c_buf       \* fft_stage: the buffer iqbuf_uptr owns (0: nullptr)

mainVars ==
    <<fft_size, frequency, main_pc, main_err, run_state, stop_seen, signals,
      queue, closed, live, p_pc, p_ret, p_source, p_buf, p_err, p_refused,
      offset, counter, c_pc, c_ret, c_status, c_buf>>

vars == <<fftVars, mainVars>>

(***************************************************************************)
(* fft.hpp: fft_reorder_samples.                                           *)
(***************************************************************************)
\* int l = N; do l /= 2; while (m + l >= N);
RECURSIVE HalveWhileOver(_, _, _)
HalveWhileOver(l, mm, size) ==
    LET h == l \div 2
    IN  IF mm + h >= size /\ h > 0 THEN HalveWhileOver(h, mm, size) ELSE h

\* m = (m & (l - 1)) + l, masked with l instead of l - 1
NextReversedMaskSlip(mm, size) ==
    LET l == HalveWhileOver(size, mm, size)
    IN  BitAnd(mm, l) + l

\* m = (m & (l - 1)) + l; l - 1 is all ones when l is 0
NextReversed(mm, size) ==
    LET l == HalveWhileOver(size, mm, size)
    IN  (IF l = 0 THEN mm ELSE BitAnd(mm, l - 1)) + l

\* the guard of the swap with "continue" dropped
SwapNeededAlways(mm, nn) == mm # nn

\* if (m <= n) continue;
SwapNeeded(mm, nn) == ~(mm <= nn)

Swap(buf, a, b) == [buf EXCEPT ![a] = buf[b], ![b] = buf[a]]

\* one iteration of the loop, at index nn with running index mm
ReorderBody(buf, nn, mm, size) ==
    LET m2 == NextReversed(mm, size)
    IN  [m       |-> m2,
         swapped |-> SwapNeeded(m2, nn),
         iq      |-> IF SwapNeeded(m2, nn) THEN Swap(buf, nn, m2) ELSE buf]

(***************************************************************************)
(* fft.hpp: fft_reorder_coefficients and the butterfly of fft.             *)
(***************************************************************************)
fft_reorder_coefficients(buf, size) ==
    LET half == size \div 2
    IN  [i \in DOMAIN buf |->
            IF i < half THEN buf[i + half]
            ELSE IF i < 2 * half THEN buf[i - half]
            ELSE buf[i]]

\* the second store written to iq[r + j] again
ButterflyIndexSlip(buf, tw, rr, jj, mh) ==
    LET u == buf[rr + jj]
        v == CMul(buf[rr + jj + mh], tw[jj])
    IN  [buf EXCEPT ![rr + jj] = CSub(u, v)]

\* the partner of iq[r + j] taken one sample on, not half a block on
ButterflyPartnerSlip(buf, tw, rr, jj, mh) ==
    LET u == buf[rr + jj]
        v == CMul(buf[rr + jj + 1], tw[jj])
    IN  [buf EXCEPT ![rr + jj] = CAdd(u, v), ![rr + jj + 1] = CSub(u, v)]

Butterfly(buf, tw, rr, jj, mh) ==
    LET u == buf[rr + jj]
        v == CMul(buf[rr + jj + mh], tw[jj])
    IN  [buf EXCEPT ![rr + jj] = CAdd(u, v), ![rr + jj + mh] = CSub(u, v)]

(***************************************************************************)
(* rtl-sdr-fft.cpp: remove_dc.                                             *)
(***************************************************************************)
RECURSIVE SumFrom(_, _, _)
SumFrom(buf, i, size) ==
    IF i >= size THEN CZero ELSE CAdd(buf[i], SumFrom(buf, i + 1, size))

\* the summation started at index 1
remove_dc_skip_first(buf, size) ==
    LET average == CDivScalar(SumFrom(buf, 1, size), size * Q15)
    IN  IF average = CZero
        THEN buf
        ELSE [i \in DOMAIN buf |-> CSub(buf[i], average)]

remove_dc(buf, size) ==
    LET average == CDivScalar(SumFrom(buf, 0, size), size * Q15)
    IN  IF average = CZero
        THEN buf
        ELSE [i \in DOMAIN buf |-> CSub(buf[i], average)]

(***************************************************************************)
(* Inputs of the numeric machine.                                          *)
(***************************************************************************)
Sizes == {2 ^ lg : lg \in 0 .. MaxLog2N}

SampleSizes == {2 ^ lg : lg \in 0 .. MaxLog2Samples}

ImpulseAmplitudes == {1, 2 ^ 8}

\* values of the producer's range [-32512, 32768], multiples of 256 and not
SampleValues ==
    { Complex(-32512, 32768), Complex(-1, 0), Complex(256, -255) }

\* two values, for sequences that repeat their samples
RepeatedValues == { Complex(256, -256), Complex(32768, 0) }

Impulse(size, a) ==
    [i \in 0 .. size - 1 |-> IF i = 0 THEN Complex(a, 0) ELSE CZero]

\* a unit sinusoid of kk cycles per block, rotating against the kernel of the
\* table, so that the transform the table defines has its only nonzero
\* coefficient at frequency kk
Sinusoid(size, kk) ==
    LET tw == generate_e_2pi_i(size)
    IN  [i \in 0 .. size - 1 |-> CConj(tw[(kk * i) % size])]

\* every sample different from every other
Labelled(size) == [i \in 0 .. size - 1 |-> Complex(i + 1, -(i + 1))]

ImpulseInputs ==
    { [test |-> "impulse", N |-> s, k |-> 0, iq |-> Impulse(s, a)] :
          s \in Sizes, a \in ImpulseAmplitudes }

SinusoidInputs ==
    UNION { { [test |-> "sinusoid", N |-> s, k |-> kk, iq |-> Sinusoid(s, kk)] :
                  kk \in 0 .. s - 1 } : s \in Sizes }

ReorderInputs(values) ==
    { [test |-> "reorder_twice", N |-> s, k |-> 0, iq |-> Labelled(s)] : s \in Sizes }
    \cup
    UNION { { [test |-> "reorder_twice", N |-> s, k |-> 0, iq |-> b] :
                  b \in [0 .. s - 1 -> values] } : s \in SampleSizes }

\* buffers for fft with any twiddle table: all samples different, or repeated
FftSampleInputs(values) ==
    { [test |-> "fft_samples", N |-> s, k |-> 0, iq |-> Labelled(s)] : s \in Sizes }
    \cup
    UNION { { [test |-> "fft_samples", N |-> s, k |-> 0, iq |-> b] :
                  b \in [0 .. s - 1 -> values] } : s \in SampleSizes }

\* twiddle tables fft may be handed: the one main builds, and one of no
\* particular structure
TwiddleTables(size) ==
    { generate_e_2pi_i(size),
      [i \in 0 .. size - 1 |-> Complex(Q15 \div (i + 2), -(Q15 \div 3) * (i % 2))] }

RemoveDcInputs(values) ==
    UNION { { [test |-> "remove_dc_twice", N |-> s, k |-> 0, iq |-> b] :
                  b \in [0 .. s - 1 -> values] } : s \in SampleSizes }

FftInit ==
    \E in \in ImpulseInputs \cup SinusoidInputs \cup FftSampleInputs(RepeatedValues)
              \cup ReorderInputs(RepeatedValues) \cup RemoveDcInputs(SampleValues) :
        /\ test = in.test
        /\ N = in.N
        /\ k = in.k
        /\ e \in (IF in.test = "fft_samples"
                  THEN TwiddleTables(in.N)
                  ELSE {generate_e_2pi_i(in.N)})
        /\ iq0 = in.iq
        /\ iq1 = in.iq
        /\ iq = in.iq
        /\ iqp = in.iq
        /\ fpc = IF in.test = "remove_dc_twice" THEN "dc" ELSE "reorder"
        /\ applied = 0
        /\ n = 1
        /\ m = 0
        /\ swaps = << >>
        /\ log2_n = 0
        /\ j = 0
        /\ r = 0

(***************************************************************************)
(* Steps of the numeric machine.                                           *)
(***************************************************************************)
\* fft_reorder_samples: one iteration of its loop
ReorderStep ==
    /\ UNCHANGED mainVars
    /\ fpc = "reorder"
    /\ n < N
    /\ LET b == ReorderBody(iq, n, m, N)
       IN  /\ iq' = b.iq
           /\ m' = b.m
           /\ swaps' = IF b.swapped THEN Append(swaps, <<n, b.m>>) ELSE swaps
    /\ n' = n + 1
    /\ UNCHANGED <<test, N, k, e, iq0, iq1, iqp, fpc, applied, log2_n, j, r>>

\* fft_reorder_samples returns: to the passes of fft, or, when the reorder
\* itself is under test, to its second application
ReorderReturn ==
    /\ UNCHANGED mainVars
    /\ fpc = "reorder"
    /\ ~(n < N)
    /\ applied' = applied + 1
    /\ IF test = "reorder_twice"
       THEN /\ fpc' = IF applied = 0 THEN "reorder" ELSE "done"
            /\ iq1' = IF applied = 0 THEN iq ELSE iq1
            /\ n' = IF applied = 0 THEN 1 ELSE n
            /\ m' = IF applied = 0 THEN 0 ELSE m
            /\ swaps' = IF applied = 0 THEN << >> ELSE swaps
       ELSE /\ fpc' = "butterfly"
            /\ UNCHANGED <<iq1, n, m, swaps>>
    /\ UNCHANGED <<test, N, k, e, iq0, iq, iqp, log2_n, j, r>>

\* for (log2_n = 0; log2_n < log2_N; ++log2_n)
PassesLeft(lg, size) == lg < ilog2(size)

\* fft: one butterfly, at pass log2_n, offset j, block start r, and the
\* advance of the three loops (r innermost, then j, then log2_n)
ButterflyStep ==
    /\ UNCHANGED mainVars
    /\ fpc = "butterfly"
    /\ PassesLeft(log2_n, N)
    /\ LET mh == 2 ^ log2_n
           mw == mh * 2
           lastR == ~(r + mw < N)
           lastJ == ~(j + 1 < mh)
       IN  /\ iq' = Butterfly(iq, e, r, j, mh)
           /\ r' = IF lastR THEN 0 ELSE r + mw
           /\ j' = IF lastR THEN (IF lastJ THEN 0 ELSE j + 1) ELSE j
           /\ log2_n' = IF lastR /\ lastJ THEN log2_n + 1 ELSE log2_n
           /\ iqp' = IF j = 0 /\ r = 0 THEN iq ELSE iqp
    /\ UNCHANGED <<test, N, k, e, iq0, iq1, fpc, applied, n, m, swaps>>

\* fft: the passes are over
PassesReturn ==
    /\ UNCHANGED mainVars
    /\ fpc = "butterfly"
    /\ ~PassesLeft(log2_n, N)
    /\ fpc' = "coefficients"
    /\ UNCHANGED <<test, N, k, e, iq0, iq1, iq, iqp, applied, n, m, swaps, log2_n, j, r>>

\* fft: fft_reorder_coefficients, and fft returns
ReorderCoefficients ==
    /\ UNCHANGED mainVars
    /\ fpc = "coefficients"
    /\ iq' = fft_reorder_coefficients(iq, N)
    /\ fpc' = "done"
    /\ UNCHANGED <<test, N, k, e, iq0, iq1, iqp, applied, n, m, swaps, log2_n, j, r>>

\* remove_dc, applied to the buffer once more
RemoveDc ==
    /\ UNCHANGED mainVars
    /\ fpc = "dc"
    /\ iq' = remove_dc(iq, N)
    /\ iq1' = IF applied = 0 THEN iq' ELSE iq1
    /\ applied' = applied + 1
    /\ fpc' = IF applied = 0 THEN "dc" ELSE "done"
    /\ UNCHANGED <<test, N, k, e, iq0, iqp, n, m, swaps, log2_n, j, r>>

FftNext ==
    \/ ReorderStep
    \/ ReorderReturn
    \/ ButterflyStep
    \/ PassesReturn
    \/ ReorderCoefficients
    \/ RemoveDc

(***************************************************************************)
(* Properties of the numeric machine.                                      *)
(***************************************************************************)
\* x with its low `bits` bits in reverse order
RECURSIVE BitReverse(_, _)
BitReverse(x, bits) ==
    IF bits = 0
    THEN 0
    ELSE (x % 2) * (2 ^ (bits - 1)) + BitReverse(x \div 2, bits - 1)

\* index, after fft_reorder_coefficients, of the bin of frequency kk: the
\* buffer is in ascending order of frequency, frequency 0 in the middle
FrequencyBin(kk, size) == (kk + size \div 2) % size

\* rounding allowance on a component of a bin that should be zero, where the
\* peak of a unit sinusoid is size * Q15
Tolerance(size) == 16 * size

\* C1: the fft of a unit impulse (a nonzero value at index 0, zero elsewhere)
\* is flat: every bin has the same nonzero magnitude and a zero imaginary part.
C1_ImpulseFlat ==
    (test = "impulse" /\ fpc = "done") =>
        \A i \in 0 .. N - 1 :
            /\ iq[i].im = 0
            /\ CNorm(iq[i]) > 0
            /\ CNorm(iq[i]) = CNorm(iq[0])

\* C1 witness: an impulse of 8 samples has been transformed
C1_Witness == test = "impulse" /\ fpc = "done" /\ N = 8 /\ iq # iq0

\* C2: the fft of a unit sinusoid of frequency k has its peak at the bin of
\* frequency k, and every other bin within the tolerance of zero.
C2_SinusoidPeak ==
    (test = "sinusoid" /\ fpc = "done") =>
        \A i \in 0 .. N - 1 :
            IF i = FrequencyBin(k, N)
            THEN Abs(iq[i].re) > 2 * Tolerance(N) \/ Abs(iq[i].im) > 2 * Tolerance(N)
            ELSE Abs(iq[i].re) <= Tolerance(N) /\ Abs(iq[i].im) <= Tolerance(N)

\* C2, for the sizes of at most 4 samples, where every pass that uses a
\* twiddle other than e[0] is the last one: there the claim holds.
C2_SinusoidPeakUpTo4 == N <= 4 => C2_SinusoidPeak

\* C2, whatever the bin: some bin holds the peak and the others are within
\* the tolerance (this fails as well from 8 samples on).
C2_SinusoidSinglePeak ==
    (test = "sinusoid" /\ fpc = "done") =>
        \E p \in 0 .. N - 1 :
            \A i \in (0 .. N - 1) \ {p} :
                Abs(iq[i].re) <= Tolerance(N) /\ Abs(iq[i].im) <= Tolerance(N)

\* C7: remove_dc is idempotent: after one application the mean the next one
\* computes is the zero complex value, and the second application leaves the
\* buffer as the first left it.
C7_RemoveDcIdempotent ==
    /\ (test = "remove_dc_twice" /\ applied >= 1) =>
           CDivScalar(SumFrom(iq, 0, N), N * Q15) = CZero
    /\ (test = "remove_dc_twice" /\ applied = 2) => iq = iq1

\* C7 witness: remove_dc was applied twice and its first application, with a
\* mean that the division truncated, changed the buffer
C7_Witness ==
    /\ test = "remove_dc_twice"
    /\ applied = 2
    /\ iq1 # iq0
    /\ SumFrom(iq0, 0, N).re % N # 0

\* C8: fft_reorder_samples applied twice returns the original sequence.
C8_ReorderInvolution ==
    (test = "reorder_twice" /\ fpc = "done") => iq = iq0

\* C8 witness: the reorder was applied twice to 8 samples and its first
\* application moved some
C8_Witness ==
    test = "reorder_twice" /\ fpc = "done" /\ N = 8 /\ iq1 # iq0

\* the buffer fft_reorder_samples was called with
ReorderInput == IF test = "reorder_twice" /\ applied = 1 THEN iq1 ELSE iq0

\* C10: in fft_reorder_samples the running index m is the bit-reversal of the
\* index of the iteration just done; every swap exchanges an index with its
\* bit-reversal and no pair is swapped twice; at the end index i holds the
\* sample that was at the bit-reversal of i, every pair swapped once.
C10_ReorderIsBitReversal ==
    fpc = "reorder" =>
        LET bits == ilog2(N)
        IN  /\ m = BitReverse(n - 1, bits)
            /\ \A a \in 1 .. Len(swaps) :
                   /\ swaps[a][2] = BitReverse(swaps[a][1], bits)
                   /\ \A b \in 1 .. Len(swaps) :
                          {swaps[a][1], swaps[a][2]} = {swaps[b][1], swaps[b][2]} => a = b
            /\ ~(n < N) =>
                   /\ \A i \in 0 .. N - 1 : iq[i] = ReorderInput[BitReverse(i, bits)]
                   /\ \A i \in 0 .. N - 1 :
                          i < BitReverse(i, bits) =>
                              \E a \in 1 .. Len(swaps) : swaps[a] = <<i, BitReverse(i, bits)>>

\* C10 witness: the loop over 8 samples has ended and has swapped two pairs
C10_Witness ==
    fpc = "reorder" /\ ~(n < N) /\ N = 8 /\ Len(swaps) = 2 /\ iq # ReorderInput

\* One pass in the order the specification gives: block start r in the outer
\* loop, offset j in the inner loop, the same butterfly at each (r, j).
RECURSIVE PassBlockOrder(_, _, _, _, _, _)
PassBlockOrder(buf, tw, rr, jj, mh, size) ==
    IF ~(rr < size)
    THEN buf
    ELSE LET done == Butterfly(buf, tw, rr, jj, mh)
         IN  IF jj + 1 < mh
             THEN PassBlockOrder(done, tw, rr, jj + 1, mh, size)
             ELSE PassBlockOrder(done, tw, rr + mh * 2, 0, mh, size)

\* the indices at which two buffers of one length differ
Changed(a, b) == {i \in DOMAIN a : a[i] # b[i]}

\* C11: the order of iteration within a pass does not matter.  Before every
\* butterfly of fft, its two indices r+j and r+j+mh are different and below
\* N, both still hold what the pass found there, and the butterfly changes
\* the buffer at those two indices only; and when a pass has ended, the
\* buffer the code's order (j outer, r inner) has left is the buffer the
\* specification's order (r outer, j inner) makes of what the pass found.
C11_PassOrderIrrelevant ==
    fpc = "butterfly" =>
        /\ PassesLeft(log2_n, N) =>
               LET mh == 2 ^ log2_n
                   lo == r + j
                   hi == r + j + mh
               IN  /\ lo < hi /\ hi < N
                   /\ ~(j = 0 /\ r = 0) => (iq[lo] = iqp[lo] /\ iq[hi] = iqp[hi])
                   /\ Changed(iq, Butterfly(iq, e, r, j, mh)) \subseteq {lo, hi}
        /\ (j = 0 /\ r = 0 /\ log2_n > 0) =>
               iq = PassBlockOrder(iqp, e, 0, 0, 2 ^ (log2_n - 1), N)

\* C11 witness: over 8 samples the pass with two blocks of two offsets each,
\* where the two orders visit the butterflies differently, has ended and has
\* changed most of the buffer, under the twiddle table of no particular
\* structure
C11_Witness ==
    /\ fpc = "butterfly" /\ test = "fft_samples"
    /\ N = 8 /\ log2_n = 2 /\ j = 0 /\ r = 0
    /\ e # generate_e_2pi_i(N)
    /\ Cardinality(Changed(iqp, iq)) > N \div 2

(***************************************************************************)
(* main: the constants and the inputs drawn.                               *)
(***************************************************************************)
FFT_SIZE_MAX == 8 * 1024

IQBUF_SIZE == FFT_SIZE_MAX * 2

IDLE_LOOPS_NUM == 1

\* capacity of the ring buffer between the stages (main asks for 42, line 330)
QueueCapacity == 2

\* signals delivered in one run
MaxSignals == 1

INT_MIN == -2147483647 - 1

\* -n <fft size>: valid sizes, zero, negative sizes, sizes that are no power
\* of two, and a power of two over the maximum
FftSizeInputs == {INT_MIN, -4096, -1, 0, 3, 4096, 6000, 8192, 12288, 16384}

\* -f <frequency>: missing (0) or given
FrequencyInputs == {0, 100}

\* as many buffers as can be alive at once: one with each thread and a full queue
BufferIds == 1 .. QueueCapacity + 2

RECURSIVE BitOr(_, _)
BitOr(a, b) ==
    IF a = 0 THEN b
    ELSE IF b = 0 THEN a
    ELSE (IF a % 2 = 1 \/ b % 2 = 1 THEN 1 ELSE 0) + 2 * BitOr(a \div 2, b \div 2)

\* a & b on two's complement ints: a negative x has the bits of ~(-x - 1)
IntAnd(a, b) ==
    IF a >= 0 /\ b >= 0 THEN BitAnd(a, b)
    ELSE IF a >= 0 THEN a - BitAnd(a, -b - 1)
    ELSE IF b >= 0 THEN b - BitAnd(b, -a - 1)
    ELSE -BitOr(-a - 1, -b - 1) - 1

\* if (fft_size & (fft_size - 1)): the outcomes of the test. fft_size - 1
\* overflows for INT_MIN, which is undefined: the test may go either way
NotPowerOfTwoTest(size) ==
    IF size = INT_MIN THEN {TRUE, FALSE} ELSE {IntAnd(size, size - 1) # 0}

\* if (fft_size > FFT_SIZE_MAX)
TooBigTest(size) == size > FFT_SIZE_MAX

(***************************************************************************)
(* pipeline.hpp and ringbuffer.hpp, as their specification describes them. *)
(***************************************************************************)
\* write(): "closed" once closed, "full" with every slot taken, else "accepted"
WriteStatus == 
    IF closed THEN "closed"
    ELSE IF Len(queue) >= QueueCapacity THEN "full"
    ELSE "accepted"

\* read(): the oldest buffer if there is one, else "closed" or "empty"
ReadStatus ==
    IF Len(queue) > 0 THEN "ok"
    ELSE IF closed THEN "closed"
    ELSE "empty"

\* stop(): the state goes to Stopping and every queue is closed
Stop ==
    /\ run_state' = IF run_state \in {"Created", "Running"} THEN "Stopping" ELSE run_state
    /\ closed' = TRUE
    /\ stop_seen' = (stop_seen \/ p_pc # "off")

NoStop == UNCHANGED <<run_state, closed, stop_seen>>

\* the process runs: main has not left and nothing has killed it
Alive == main_pc \notin {"exit_failure", "done", "aborted"}

(***************************************************************************)
(* main.                                                                   *)
(***************************************************************************)
MainInitialState ==
    /\ fft_size \in FftSizeInputs
    /\ frequency \in FrequencyInputs
    /\ main_pc = "validate"
    /\ main_err = ""
    /\ run_state = "None"
    /\ stop_seen = FALSE
    /\ signals = 0
    /\ queue = << >>
    /\ closed = FALSE
    /\ live = {}
    /\ p_pc = "off"
    /\ p_ret = TRUE
    /\ p_source = "none"
    /\ p_buf = 0
    /\ p_err = ""
    /\ p_refused = FALSE
    /\ offset = 0
    /\ counter = 0
    /\ c_pc = "off"
    /\ c_ret = TRUE
    /\ c_status = "none"
    /\ c_buf = 0

threadVars ==
    <<queue, live, p_pc, p_ret, p_source, p_buf, p_err, p_refused, offset, counter,
      c_pc, c_ret, c_status, c_buf>>

\* lines 197-211: the checks of the options
MainValidate ==
    /\ UNCHANGED fftVars
    /\ main_pc = "validate"
    /\ \E notPow2 \in NotPowerOfTwoTest(fft_size) :
          IF frequency = 0
          THEN main_pc' = "exit_failure" /\ main_err' = "usage"
          ELSE IF notPow2
          THEN main_pc' = "exit_failure" /\ main_err' = "must be power of 2"
          ELSE IF TooBigTest(fft_size)
          THEN main_pc' = "exit_failure" /\ main_err' = "is too big"
          ELSE main_pc' = "device" /\ main_err' = main_err
    /\ UNCHANGED <<fft_size, frequency, signals, threadVars>>
    /\ NoStop

\* lines 213-256: the device is found, opened and set up, or main exits
MainDevice ==
    /\ UNCHANGED fftVars
    /\ main_pc = "device"
    /\ \E ok \in BOOLEAN :
          IF ok
          THEN main_pc' = "init" /\ main_err' = main_err
          ELSE main_pc' = "exit_failure" /\ main_err' = "device"
    /\ UNCHANGED <<fft_size, frequency, signals, threadVars>>
    /\ NoStop

\* lines 260-330: the twiddle table is allocated and filled, the pipeline is
\* constructed. make_unique<iq_t[]>(fft_size) throws for a negative size,
\* which nothing catches
MainInit ==
    /\ UNCHANGED fftVars
    /\ main_pc = "init"
    /\ IF fft_size < 0
       THEN /\ main_pc' = "aborted"
            /\ UNCHANGED <<run_state, closed>>
       ELSE /\ main_pc' = "start"
            /\ run_state' = "Created"
            /\ closed' = FALSE
    /\ UNCHANGED <<fft_size, frequency, main_err, stop_seen, signals, threadVars>>

\* line 332: pipeline->start()
MainStart ==
    /\ UNCHANGED fftVars
    /\ main_pc = "start"
    /\ main_pc' = "join"
    /\ run_state' = IF run_state = "Created" THEN "Running" ELSE run_state
    /\ p_pc' = "loop"
    /\ c_pc' = "loop"
    /\ UNCHANGED <<fft_size, frequency, main_err, stop_seen, signals, closed,
                   queue, live, p_ret, p_source, p_buf, p_err, p_refused, offset,
                   counter, c_ret, c_status, c_buf>>

\* lines 333-340: pipeline->join() returns once both threads have exited
MainJoin ==
    /\ UNCHANGED fftVars
    /\ main_pc = "join"
    /\ p_pc = "exited"
    /\ c_pc = "exited"
    /\ main_pc' = "done"
    /\ run_state' = "Stopped"
    /\ UNCHANGED <<fft_size, frequency, main_err, stop_seen, signals, closed, threadVars>>

\* lines 356-362: signal_handler
SignalHandler ==
    /\ UNCHANGED fftVars
    /\ Alive
    /\ signals < MaxSignals
    /\ signals' = signals + 1
    /\ IF run_state # "None" THEN Stop ELSE NoStop
    /\ UNCHANGED <<fft_size, frequency, main_pc, main_err, threadVars>>

mainOnly == <<fft_size, frequency, main_pc, main_err, signals>>

consumerVars == <<c_pc, c_ret, c_status, c_buf>>

producerVars == <<p_pc, p_ret, p_source, p_buf, p_err, p_refused, offset, counter>>

(***************************************************************************)
(* The producer thread: the stage loop of the pipeline around the producer *)
(* lambda of main.                                                         *)
(***************************************************************************)
\* std::make_unique<buffer<iq_t>>: a buffer that is not alive
NewBuffer == CHOOSE b \in BufferIds \ live : \A c \in BufferIds \ live : b <= c

\* counter++ (what is past IDLE_LOOPS_NUM compares alike)
CounterNext(c) == IF c < IDLE_LOOPS_NUM + 1 THEN c + 1 ELSE c

\* iqbuf_uptr after orb->write(std::move(iqbuf_uptr)), the write copying the
\* pointer and leaving it with the caller too
AfterMoveCopied(status, buf) == buf

\* iqbuf_uptr after orb->write(std::move(iqbuf_uptr)): empty when the queue
\* took the buffer, still the owner when it did not
AfterMove(status, buf) == IF status = "accepted" THEN 0 ELSE buf

\* a refused write ending the iteration with false
AfterWriteEscalating(status) ==
    IF status = "accepted"
    THEN [pc |-> "for", ret |-> TRUE]
    ELSE [pc |-> "ret", ret |-> FALSE]

\* lines 301-305: whatever the write returned, the loop goes on
AfterWrite(status) == [pc |-> "for", ret |-> TRUE]

\* the stage loop: the stage function is called while the pipeline runs
ProducerLoop ==
    /\ UNCHANGED fftVars
    /\ Alive
    /\ p_pc = "loop"
    /\ IF run_state = "Running"
       THEN /\ p_pc' = "read"
            /\ p_source' = "none"
            /\ p_err' = ""
            /\ p_refused' = FALSE
       ELSE /\ p_pc' = "exited"
            /\ UNCHANGED <<p_source, p_err, p_refused>>
    /\ UNCHANGED <<mainOnly, consumerVars, queue, live, p_ret, p_buf, offset, counter>>
    /\ NoStop

\* lines 272-285: rtlsdr_read_sync fails, reads short, or fills iqbuf_u8; the
\* first IDLE_LOOPS_NUM full blocks are skipped
ProducerRead ==
    /\ UNCHANGED fftVars
    /\ Alive
    /\ p_pc = "read"
    /\ \E source \in {"failed", "short", "full"} :
          /\ p_source' = source
          /\ IF source = "failed"
             THEN /\ p_err' = "rtlsdr_read_sync failed"
                  /\ p_ret' = FALSE
                  /\ p_pc' = "ret"
                  /\ UNCHANGED <<counter, offset>>
             ELSE IF source = "short"
             THEN /\ p_err' = "rtlsdr_read_sync dropped samples"
                  /\ p_ret' = TRUE
                  /\ p_pc' = "ret"
                  /\ UNCHANGED <<counter, offset>>
             ELSE /\ p_err' = ""
                  /\ counter' = CounterNext(counter)
                  /\ IF counter < IDLE_LOOPS_NUM
                     THEN p_ret' = TRUE /\ p_pc' = "ret" /\ offset' = offset
                     ELSE p_ret' = p_ret /\ p_pc' = "for" /\ offset' = 0
    /\ UNCHANGED <<mainOnly, consumerVars, queue, live, p_buf, p_refused>>
    /\ NoStop

\* lines 287-298 and 307: the head of the for loop; a buffer of fft_size
\* samples is allocated and filled, or the loop is over and true is returned
ProducerFor ==
    /\ UNCHANGED fftVars
    /\ Alive
    /\ p_pc = "for"
    /\ IF offset < IQBUF_SIZE
       THEN /\ p_buf' = NewBuffer
            /\ live' = live \cup {NewBuffer}
            /\ p_pc' = "write"
            /\ p_ret' = p_ret
       ELSE /\ p_ret' = TRUE
            /\ p_pc' = "ret"
            /\ UNCHANGED <<p_buf, live>>
    /\ p_err' = ""
    /\ UNCHANGED <<mainOnly, consumerVars, queue, p_source, p_refused, offset, counter>>
    /\ NoStop

\* lines 300-305: the buffer is offered to the queue; a refusal is logged;
\* at the end of the loop body the buffer iqbuf_uptr still owns is destroyed
ProducerWrite ==
    /\ UNCHANGED fftVars
    /\ Alive
    /\ p_pc = "write"
    /\ LET status == WriteStatus
           kept == AfterMove(status, p_buf)
           next == AfterWrite(status)
       IN  /\ queue' = IF status = "accepted" THEN Append(queue, p_buf) ELSE queue
           /\ p_err' = IF status = "accepted" THEN "" ELSE "orb->write() failed"
           /\ p_refused' = (p_refused \/ status = "full")
           /\ live' = live \ {kept}
           /\ p_buf' = 0
           /\ p_pc' = next.pc
           /\ p_ret' = next.ret
    /\ offset' = offset + fft_size * 2
    /\ UNCHANGED <<mainOnly, consumerVars, p_source, counter>>
    /\ NoStop

\* the stage loop: a stage function that returned false stops the pipeline
ProducerReturned ==
    /\ UNCHANGED fftVars
    /\ Alive
    /\ p_pc = "ret"
    /\ p_pc' = "loop"
    /\ IF p_ret THEN NoStop ELSE Stop
    /\ UNCHANGED <<mainOnly, consumerVars, queue, live, p_ret, p_source, p_buf,
                   p_err, p_refused, offset, counter>>

(***************************************************************************)
(* The fft_stage thread: the stage loop around the fft_stage lambda.       *)
(***************************************************************************)
ConsumerLoop ==
    /\ UNCHANGED fftVars
    /\ Alive
    /\ c_pc = "loop"
    /\ IF run_state = "Running"
       THEN c_pc' = "read" /\ c_status' = "none"
       ELSE c_pc' = "exited" /\ c_status' = c_status
    /\ UNCHANGED <<mainOnly, producerVars, queue, live, c_ret, c_buf>>
    /\ NoStop

\* lines 106-115 and 315-317: get_iq_buffer_uptr reads the queue; anything
\* but one buffer read is nullptr, and fft_stage returns false
ConsumerRead ==
    /\ UNCHANGED fftVars
    /\ Alive
    /\ c_pc = "read"
    /\ c_status' = ReadStatus
    /\ IF ReadStatus = "ok"
       THEN /\ c_buf' = Head(queue)
            /\ queue' = Tail(queue)
            /\ c_pc' = "process"
            /\ c_ret' = c_ret
       ELSE /\ c_ret' = FALSE
            /\ c_pc' = "ret"
            /\ UNCHANGED <<c_buf, queue>>
    /\ UNCHANGED <<mainOnly, producerVars, live>>
    /\ NoStop

\* lines 319-326: remove_dc, fft and print_fft on the buffer, which is
\* destroyed on return. With fft_size 0 remove_dc divides by fixq15(0), which
\* is undefined: the process is killed or goes on
ConsumerProcess ==
    /\ UNCHANGED fftVars
    /\ Alive
    /\ c_pc = "process"
    /\ \E killed \in (IF fft_size = 0 THEN {TRUE, FALSE} ELSE {FALSE}) :
          IF killed
          THEN /\ main_pc' = "aborted"
               /\ UNCHANGED <<c_pc, c_ret, c_buf, live>>
          ELSE /\ main_pc' = main_pc
               /\ live' = live \ {c_buf}
               /\ c_buf' = 0
               /\ c_ret' = TRUE
               /\ c_pc' = "ret"
    /\ UNCHANGED <<fft_size, frequency, main_err, signals, producerVars, queue, c_status>>
    /\ NoStop

ConsumerReturned ==
    /\ UNCHANGED fftVars
    /\ Alive
    /\ c_pc = "ret"
    /\ c_pc' = "loop"
    /\ IF c_ret THEN NoStop ELSE Stop
    /\ UNCHANGED <<mainOnly, producerVars, queue, live, c_ret, c_status, c_buf>>

(***************************************************************************)
(* The specifications.                                                     *)
(***************************************************************************)
FftIdle ==
    /\ test = "none"
    /\ N = 0
    /\ k = 0
    /\ e = << >>
    /\ iq0 = << >>
    /\ iq1 = << >>
    /\ iq = << >>
    /\ iqp = << >>
    /\ fpc = "idle"
    /\ applied = 0
    /\ n = 0
    /\ m = 0
    /\ swaps = << >>
    /\ log2_n = 0
    /\ j = 0
    /\ r = 0

MainIdle ==
    /\ fft_size = 0
    /\ frequency = 0
    /\ main_pc = "exit_failure"
    /\ main_err = ""
    /\ run_state = "None"
    /\ stop_seen = FALSE
    /\ signals = 0
    /\ queue = << >>
    /\ closed = FALSE
    /\ live = {}
    /\ p_pc = "off"
    /\ p_ret = TRUE
    /\ p_source = "none"
    /\ p_buf = 0
    /\ p_err = ""
    /\ p_refused = FALSE
    /\ offset = 0
    /\ counter = 0
    /\ c_pc = "off"
    /\ c_ret = TRUE
    /\ c_status = "none"
    /\ c_buf = 0

MainNext ==
    \/ MainValidate
    \/ MainDevice
    \/ MainInit
    \/ MainStart
    \/ MainJoin

ProducerNext ==
    \/ ProducerLoop
    \/ ProducerRead
    \/ ProducerFor
    \/ ProducerWrite
    \/ ProducerReturned

ConsumerNext ==
    \/ ConsumerLoop
    \/ ConsumerRead
    \/ ConsumerProcess
    \/ ConsumerReturned

Init == MainInitialState /\ FftIdle

Next ==
    \/ MainValidate
    \/ MainDevice
    \/ MainInit
    \/ MainStart
    \/ MainJoin
    \/ SignalHandler
    \/ ProducerLoop
    \/ ProducerRead
    \/ ProducerFor
    \/ ProducerWrite
    \/ ProducerReturned
    \/ ConsumerLoop
    \/ ConsumerRead
    \/ ConsumerProcess
    \/ ConsumerReturned

\* main, the signal handler and the stage threads
Spec == Init /\ [][Next]_vars

\* the same, every thread that can take a step taking one eventually (the
\* operating system schedules main and both stage threads; signals come or not)
FairSpec ==
    /\ Spec
    /\ WF_vars(MainNext)
    /\ WF_vars(ProducerNext)
    /\ WF_vars(ConsumerNext)

FftSpecInit == FftInit /\ MainIdle

\* the numeric code on the inputs drawn
SpecFFT == FftSpecInit /\ [][FftNext]_vars

(***************************************************************************)
(* Properties of main and the pipeline.                                    *)
(***************************************************************************)
\* a transform size the program supports: a power of two in [1, FFT_SIZE_MAX]
ValidSize(size) == \E lg \in 0 .. ilog2(FFT_SIZE_MAX) : size = 2 ^ lg

PipelineUntouched == run_state = "None" /\ p_pc = "off" /\ c_pc = "off"

\* C3: with an fft_size that is no power of two in [1, FFT_SIZE_MAX] the
\* pipeline is never constructed or started, and when main has left it has
\* left with an error reported.
C3_InvalidSizeNeverStarts ==
    ~ValidSize(fft_size) =>
        /\ PipelineUntouched
        /\ main_pc \notin {"start", "join", "done"}

\* C3, but for the size 0: every other invalid size is turned away before
\* the pipeline exists.
C3_InvalidSizeButZeroNeverStarts ==
    (~ValidSize(fft_size) /\ fft_size # 0) =>
        /\ PipelineUntouched
        /\ main_pc \notin {"start", "join", "done"}

\* C4: a stage function returns false only on an unrecoverable failure: the
\* producer only when the read of the source failed hard, fft_stage never
\* because the read of its open queue found it empty.
C4_FalseOnlyOnFailure ==
    /\ (p_pc = "ret" /\ ~p_ret) => p_source = "failed"
    /\ (c_pc = "ret" /\ ~c_ret) => c_status # "empty"

\* C4, the producer's half, which holds.
C4_ProducerFalseOnlyOnFailure ==
    (p_pc = "ret" /\ ~p_ret) => p_source = "failed"

Joined == main_pc = "done" /\ p_pc = "exited" /\ c_pc = "exited"

\* C5: once stop() has been called after start(), both stage threads exit
\* and join() returns (or the process has been killed before).
C5_StopLeadsToJoin ==
    stop_seen ~> (Joined \/ main_pc = "aborted")

\* C5 for the transform sizes above 0, where it holds: the for loop of the
\* producer advances and ends.
C5_StopLeadsToJoinPositiveSize ==
    (stop_seen /\ fft_size > 0) ~> Joined

\* how many of the three places hold buffer b
Holders(b) ==
    (IF p_buf = b THEN 1 ELSE 0)
    + Cardinality({i \in 1 .. Len(queue) : queue[i] = b})
    + (IF c_buf = b THEN 1 ELSE 0)

\* C6: every buffer alive is owned by exactly one of the producer, a slot of
\* the queue and fft_stage; a destroyed buffer is reachable from none. So the
\* two threads never hold, and never change, the same buffer.
C6_ExclusiveOwnership ==
    /\ \A b \in BufferIds : Holders(b) = (IF b \in live THEN 1 ELSE 0)
    /\ Len(queue) <= QueueCapacity
    /\ p_buf # 0 => p_buf # c_buf

\* C6 witness: the producer, a slot of the queue and fft_stage own a buffer each
C6_Witness ==
    /\ p_buf # 0
    /\ c_buf # 0
    /\ Len(queue) = QueueCapacity
    /\ Cardinality(live) = QueueCapacity + 2

\* C9: a write that finds the queue full drops that one buffer and logs it,
\* touches neither the queue nor the state of the pipeline, and the producer
\* goes on with the next sub-block of the block; an iteration that met a full
\* queue never returns false.
C9_OverflowDropsOneBuffer ==
    /\ [][ (p_pc = "write" /\ p_pc' # "write" /\ WriteStatus = "full") =>
              /\ live' = live \ {p_buf}
              /\ p_buf \in live
              /\ p_buf' = 0
              /\ queue' = queue
              /\ p_err' = "orb->write() failed"
              /\ p_pc' = "for"
              /\ offset' = offset + fft_size * 2
              /\ run_state' = run_state
              /\ closed' = closed ]_vars
    /\ []((p_refused /\ p_pc = "ret") => p_ret)

\* C9 witness: an iteration that had a write refused by the full queue, and
\* offered a later sub-block with success, has returned true
C9_Witness ==
    /\ p_refused
    /\ p_pc = "ret"
    /\ p_ret
    /\ run_state = "Running"
    /\ Len(queue) > 0

====
